---- MODULE Spec2Model ----
(***************************************************************************)
(* Outbound-call campaign scheduler: the Scheduler, the per-campaign       *)
(* workers (CampaignController), the coordination store (RedisService)     *)
(* and the callback consumer, as a state machine.                          *)
(*                                                                         *)
(* Modelling decisions:                                                    *)
(*  - one action is one handler run; the store serializes its operations   *)
(*    and the handlers are taken atomically with respect to each other;    *)
(*  - asyncio.sleep is a yield: the moment a sleeping worker runs again is  *)
(*    left open, time advances by the Tick action;                         *)
(*  - time.time() and datetime.now() read the one clock `now', counted in  *)
(*    ticks (fractions of a second) since local midnight; int(time.time()) *)
(*    is the whole number of seconds in it;                                *)
(*  - uuid.uuid4() is a fresh identifier taken from a counter;             *)
(*  - the Call Agent and the campaign table are the environment: the agent *)
(*    reports one outcome for every call a worker creates, with any status *)
(*    and retry parameters.                                                *)
(***************************************************************************)
EXTENDS Integers, Sequences, FiniteSets, TLC

---------------------------------------------------------------------------
(* Bounds of the model *)

TicksPerSecond == 2  \* resolution of the clock
MaxElapsed == 3      \* ticks the clock advances
MaxCalls == 2        \* uuids drawn by _create_call
MaxQueue == 1        \* length of call_callbacks
MaxEnvEvents == 1    \* edits of the campaign table and thread crashes
MaxRetries == 3      \* retries scheduled in the claim harness

(* Program constants *)

ClaimLimit == 10               \* claim_due_retries(..., limit=10)
BatchSize == 10                \* get_call_callbacks: range(10)
LeadMinGap == 60               \* seconds between two calls of one lead
DefaultMaxAttempts == 3        \* payload.get("max_attempts", 3)
MAX_CONCURRENT_CAMPAIGNS == 10 \* Config.MAX_CONCURRENT_CAMPAIGNS

(* The clock starts one tick after 08:59:58 *)
StartClock == (8 * 3600 + 59 * 60 + 58) * TicksPerSecond + 1

\* int(time.time())
int_time(t) == t \div TicksPerSecond

---------------------------------------------------------------------------
(* The campaign table and the customers table (the environment's data) *)

Cids == {"c1", "c2"}
Callers == {"w1", "w2"}
CampaignOrder == <<"c1", "c2">>
CampaignStatuses == {"running", "paused", "ended", "draft"}
NoTime == -1

Window(fh, fm, th, tm) ==
    [fromHour |-> fh, fromMinute |-> fm, toHour |-> th, toMinute |-> tm]

Lead(id, phone, cid) == [id |-> id, phone_number |-> phone, campaign_id |-> cid]


---------------------------------------------------------------------------
(* Python values that travel through the retry payload *)

PStr(s) == [t |-> "str", s |-> s, n |-> 0]
PInt(n) == [t |-> "int", s |-> "", n |-> n]
\* a list, held as its JSON text
PList(s) == [t |-> "list", s |-> s, n |-> 0]

\* str(v); for a list json.dumps(v)
PyStr(v) == IF v.t = "int" THEN ToString(v.n) ELSE v.s

\* the texts json.loads accepts among the texts of the model: the numerals and
\* the list texts
JsonListTexts == {"[1]"}
Numerals == 0..99
NumeralValue(s) == CHOOSE n \in Numerals : ToString(n) = s

\* _maybe(v): json.loads(v), or v itself when it does not parse
Maybe(s) ==
    IF \E n \in Numerals : ToString(n) = s THEN PInt(NumeralValue(s))
    ELSE IF s \in JsonListTexts THEN PList(s)
    ELSE PStr(s)

\* int(v); the worker only applies it to decoded fields
PyInt(v) == IF v.t = "int" THEN v.n ELSE NumeralValue(v.s)

\* the mapping written by save_failure_and_schedule_retry: str(v) of every field
EncodeMapping(payload) == [k \in DOMAIN payload |-> PyStr(payload[k])]

\* the dict returned by get_call_payload for a stored mapping
DecodeMapping(mapping) == [k \in DOMAIN mapping |-> Maybe(mapping[k])]

Uuid(n) == "u" \o ToString(n)
UuidIndex(id) == CHOOSE n \in 1..99 : Uuid(n) = id

---------------------------------------------------------------------------
VARIABLES
    now,                  \* the clock
    campaigns,            \* public.campaigns: cid -> row
    customers,            \* public.customers, ORDER BY created_at
    config,               \* Config
    envEvents,            \* environment events so far
    \* the coordination store
    done,                 \* camp:{cid}:done
    done_phone,           \* camp:{cid}:done_phone
    inprogress,           \* camp:{cid}:inprogress
    inprog_phone,         \* camp:{cid}:inprog_phone
    retry,                \* camp:{cid}:retry, call_id -> score
    call,                 \* call:{call_id}, call_id -> mapping
    call_requests,        \* list, head first
    call_callbacks,       \* list, head first
    \* the scheduler
    active_controllers,   \* cid -> CampaignController
    controller_threads,   \* cid -> state of the worker thread
    controller_loops,     \* cids with an event loop registered
    controller_db_services,
    controller_redis_services,
    \* the callback consumer
    callbacks,            \* the batch popped by _callback_listener
    handling,             \* where _handle_call_callback is on the head of the
                          \* batch: "idle" between two callbacks
    \* uuid4 and the Call Agent
    nextUuid,
    awaiting,             \* calls created and not yet reported by the agent
    \* history
    not_before,           \* call_id in a retry index -> the tick it was stored at
                          \* plus its delay
    claims,               \* claim harness: caller -> the call_ids it was handed
    exhausted,            \* <<cid, lead>> whose last attempt the consumer applied
    last_dial,            \* <<cid, lead>> -> the tick of the last dial of the lead
    fifo,                 \* queue harness: per queue the messages sent, the batch
                          \* being collected and the batches returned
    issued,               \* commands _handle_call_callback has issued for the head
                          \* of the batch
    finalized,            \* <<cid, lead, phone>> of the SUCCESS callbacks whose
                          \* payload the consumer deleted or whose index entry it
                          \* removed
    ev                    \* the last operation run and what it did

store == <<done, done_phone, inprogress, inprog_phone, retry, call>>
queues == <<call_requests, call_callbacks>>
scheduler == <<active_controllers, controller_threads, controller_loops,
               controller_db_services, controller_redis_services>>
db == <<campaigns, customers, config>>
vars == <<now, db, envEvents, store, queues, scheduler,
          callbacks, handling, nextUuid, awaiting, not_before, claims, exhausted,
          last_dial, fifo, issued, finalized, ev>>

---------------------------------------------------------------------------
(* Partial functions *)

Put(f, k, v) == [x \in DOMAIN f \cup {k} |-> IF x = k THEN v ELSE f[x]]
Drop(f, ks) == [x \in DOMAIN f \ ks |-> f[x]]
SeqToSet(s) == {s[i] : i \in 1..Len(s)}

---------------------------------------------------------------------------
(* DatabaseService *)

get_pending_leads_for_campaign(cid) ==
    LET match(l) == l.campaign_id = cid
        rows == SelectSeq(customers, match)
    IN  SubSeq(rows, 1, IF Len(rows) < 50 THEN Len(rows) ELSE 50)

get_running_campaigns ==
    LET running(cid) == cid \in DOMAIN campaigns /\ campaigns[cid].status = "running"
    IN  SelectSeq(CampaignOrder, running)

get_stopped_campaigns ==
    LET stopped(cid) == cid \in DOMAIN campaigns
                        /\ campaigns[cid].status \in {"paused", "ended"}
    IN  SelectSeq(CampaignOrder, stopped)

---------------------------------------------------------------------------
(* RedisService: each operator is one command (or one transaction) *)

\* SADD / SREM / SISMEMBER on a per-campaign set
\* a write that replaces the members of the set
set_single_member(set, cid, member) == [set EXCEPT ![cid] = {member}]

sadd(set, cid, member) == [set EXCEPT ![cid] = @ \cup {member}]
srem(set, cid, member) == [set EXCEPT ![cid] = @ \ {member}]
sismember(set, cid, member) == member \in set[cid]

\* retry_at = int(time.time()) + int(delay_seconds)
retry_at(t, delay_seconds) == int_time(t) + delay_seconds

\* save_failure_and_schedule_retry: HSET and ZADD in one MULTI/EXEC
\* a write of the payload under every call key of the store
save_failure_every_call(c, call_id, payload) ==
    [x \in DOMAIN c \cup {call_id} |-> EncodeMapping(payload)]

save_failure_call(c, call_id, payload) == Put(c, call_id, EncodeMapping(payload))
save_failure_retry(z, cid, call_id, t, delay_seconds) ==
    [z EXCEPT ![cid] = Put(@, call_id, retry_at(t, delay_seconds))]

\* save_success_and_finalize: DEL call:{call_id}
save_success_and_finalize(c, call_id) == Drop(c, {call_id})

\* remove_retry: ZREM camp:{cid}:retry call_id
remove_retry(z, cid, call_id) == [z EXCEPT ![cid] = Drop(@, {call_id})]

\* ZRANGEBYSCORE zkey -inf now LIMIT 0 1: lowest score first, then by member
DueIds(zset, now_ts) == {id \in DOMAIN zset : zset[id] <= now_ts}
FirstDue(zset, now_ts) ==
    CHOOSE id \in DueIds(zset, now_ts) :
        \A o \in DueIds(zset, now_ts) :
            \/ zset[id] < zset[o]
            \/ zset[id] = zset[o] /\ UuidIndex(id) <= UuidIndex(o)

\* _POP_DUE_LUA: the ids claimed, in order, and the index left behind
RECURSIVE PopDue(_, _, _, _)
PopDue(zset, now_ts, limit, res) ==
    IF limit = 0 \/ DueIds(zset, now_ts) = {} THEN [ids |-> res, zset |-> zset]
    ELSE LET id == FirstDue(zset, now_ts)
         IN  PopDue(Drop(zset, {id}), now_ts, limit - 1, Append(res, id))

\* a claim that reads the due ids and leaves them in the index
claim_without_zrem(zset, t, limit) ==
    [ids |-> PopDue(zset, int_time(t), limit, <<>>).ids, zset |-> zset]

\* claim_due_retries: now_ts = int(time.time()), then the script
claim_due_retries(zset, t, limit) == PopDue(zset, int_time(t), limit, <<>>)

\* get_call_payload: HGETALL, every field through _maybe; {} when absent
HasPayload(c, call_id) == call_id \in DOMAIN c
get_call_payload(c, call_id) == DecodeMapping(c[call_id])

\* a push at the end BRPOP takes from
push_at_tail(list, msg) == Append(list, msg)

\* LPUSH / BRPOP
lpush(list, msg) == <<msg>> \o list
\* the batch get_call_callbacks returns, oldest first, and the list left
RECURSIVE brpop_batch(_, _, _)
brpop_batch(list, k, got) ==
    IF k = 0 \/ list = <<>> THEN [batch |-> got, list |-> list]
    ELSE brpop_batch(SubSeq(list, 1, Len(list) - 1), k - 1, Append(got, list[Len(list)]))

---------------------------------------------------------------------------
(* CampaignService: the campaign policy *)

Clamp(lo, hi, x) == IF x < lo THEN lo ELSE IF x > hi THEN hi ELSE x

\* a field of a window that int() does not accept (null, a text that is no number)
Null == 0 - 99
Malformed(w) == Null \in {w.fromHour, w.fromMinute, w.toHour, w.toMinute}

\* _parse_time_windows on a decoded list: every window clamped; int() raising on
\* one entry makes the except branch return no window at all
_parse_time_windows(time_of_day) ==
    IF \E i \in 1..Len(time_of_day) : Malformed(time_of_day[i]) THEN <<>>
    ELSE
    [i \in 1..Len(time_of_day) |->
        Window(Clamp(0, 23, time_of_day[i].fromHour), Clamp(0, 59, time_of_day[i].fromMinute),
               Clamp(0, 23, time_of_day[i].toHour), Clamp(0, 59, time_of_day[i].toMinute))]

\* now.hour * 60 + now.minute
NowMinutes(t) == (int_time(t) \div 60) % 1440

\* a test that also accepts the far side of a window across midnight
window_with_wrap(w, t) ==
    LET start == w.fromHour * 60 + w.fromMinute
        end == w.toHour * 60 + w.toMinute
    IN  \/ start < end /\ start <= NowMinutes(t) /\ NowMinutes(t) < end
        \/ start > end /\ (NowMinutes(t) >= start \/ NowMinutes(t) < end)

WindowStart(w) == w.fromHour * 60 + w.fromMinute
WindowEnd(w) == w.toHour * 60 + w.toMinute
WindowHolds(w, t) ==
    /\ WindowStart(w) < WindowEnd(w)
    /\ WindowStart(w) <= NowMinutes(t)
    /\ NowMinutes(t) < WindowEnd(w)

is_within_time_of_day(campaign, t) ==
    LET windows == _parse_time_windows(campaign.time_of_day)
    IN  IF windows = <<>> THEN TRUE
        ELSE \E i \in 1..Len(windows) : WindowHolds(windows[i], t)

_is_time_valid_safe(start_time, end_time, t) ==
    /\ start_time = NoTime \/ start_time <= t
    /\ end_time = NoTime \/ end_time > t

is_active(campaign) == campaign.status = "running"

filter_active_campaigns(cids, t) ==
    LET keep(cid) == /\ is_active(campaigns[cid])
                     /\ _is_time_valid_safe(campaigns[cid].start_time,
                                            campaigns[cid].end_time, t)
                     /\ is_within_time_of_day(campaigns[cid], t)
    IN  SelectSeq(cids, keep)

\* create_call_message (timestamp, tenant, script and names left out)
create_call_message(call_id, campaign, lead) ==
    [callId |-> call_id, campaignId |-> campaign.id, leadId |-> lead.id,
     leadPhoneNumber |-> lead.phone_number]

---------------------------------------------------------------------------
(* CampaignController *)

EmptyMap == [x \in {} |-> 0]

\* __init__
NewController(campaign) ==
    [campaign |-> campaign,
     is_running |-> FALSE, is_stopped |-> FALSE, finished |-> FALSE,
     last_call_time |-> EmptyMap, processed_leads |-> 0,
     last_campaign_call_at |-> NoTime,
     redis |-> "none",               \* "none", "open" (attached), "closed"
     inprogress_local |-> {}]

\* a stop() that sets no flag
stop_without_flag(self) == self

\* stop()
Stopped(self) == [self EXCEPT !.is_stopped = TRUE, !.is_running = FALSE]

\* _dial: the stub answers FAILED
_dial(phone) == "FAILED"

Dial(cid, lead_id, phone, call_id, is_retry, attempt) ==
    [cid |-> cid, lead |-> lead_id, phone |-> phone, call_id |-> call_id,
     is_retry |-> is_retry, attempt |-> attempt]

PayloadGet(payload, k, default) == IF k \in DOMAIN payload THEN payload[k] ELSE default

\* the retry half of _process_campaign_once: the loop over due_ids.
\* st = [call, zset, done, dials, delays, error]; an exception ends the loop;
\* delays records the delay of every retry stored again.
RetryStep(cid, call_id, st, t) ==
    IF ~HasPayload(st.call, call_id) \/ "phone" \notin DOMAIN st.call[call_id]
    THEN [st EXCEPT !.error = TRUE]      \* payload["phone"]: KeyError
    ELSE
    LET payload == get_call_payload(st.call, call_id)
        lead_id == PyStr(PayloadGet(payload, "lead_id", PStr("None")))
        phone == payload["phone"]
        attempt == PyInt(PayloadGet(payload, "attempt", PInt(0)))
        max_attempts == PyInt(PayloadGet(payload, "max_attempts", PInt(DefaultMaxAttempts)))
        retry_interval_s == PyInt(PayloadGet(payload, "retry_interval_s", PInt(300)))
        outcome == _dial(phone)
        dialed == Append(st.dials, Dial(cid, lead_id, PyStr(phone), call_id, TRUE, attempt))
    IN  IF outcome = "SUCCESS"
        THEN [st EXCEPT !.dials = dialed,
                        !.done = @ \cup {lead_id},
                        !.call = save_success_and_finalize(@, call_id)]
        ELSE IF attempt + 1 < max_attempts
        THEN [st EXCEPT !.dials = dialed,
                        !.call = save_failure_call(@, call_id,
                                     [payload EXCEPT !["attempt"] = PInt(attempt + 1)]),
                        !.zset = Put(@, call_id, retry_at(t, retry_interval_s)),
                        !.delays = Put(@, call_id, retry_interval_s)]
        ELSE [st EXCEPT !.dials = dialed,
                        !.call = save_success_and_finalize(@, call_id)]

RECURSIVE RetryLoop(_, _, _, _)
RetryLoop(cid, due_ids, st, t) ==
    IF due_ids = <<>> \/ st.error THEN st
    ELSE RetryLoop(cid, Tail(due_ids), RetryStep(cid, Head(due_ids), st, t), t)

\* _should_make_call
_should_make_call(self, lead, t) ==
    /\ self.redis = "none" \/
         /\ ~sismember(done, self.campaign.id, lead.id)
         /\ ~sismember(done_phone, self.campaign.id, lead.phone_number)
         /\ ~sismember(inprogress, self.campaign.id, lead.id)
         /\ ~sismember(inprog_phone, self.campaign.id, lead.phone_number)
    /\ lead.id \notin self.inprogress_local
    /\ is_within_time_of_day(self.campaign, t)
    /\ lead.id \in DOMAIN self.last_call_time =>
          t - self.last_call_time[lead.id] >= LeadMinGap * TicksPerSecond

\* the first pending lead _should_make_call accepts, as a list of 0 or 1
FirstAccepted(self, t) ==
    LET pending_leads == get_pending_leads_for_campaign(self.campaign.id)
        ok == {i \in 1..Len(pending_leads) : _should_make_call(self, pending_leads[i], t)}
    IN  IF ok = {} THEN <<>>
        ELSE << pending_leads[CHOOSE i \in ok : \A j \in ok : i <= j] >>

---------------------------------------------------------------------------
(* The record of the last operation *)

NoCallback == <<>>

\* the two lists between the scheduler and the Call Agent
QueueNames == {"call_requests", "call_callbacks"}
NoTraffic == [q \in QueueNames |-> [sent |-> <<>>, batch |-> <<>>, returned |-> <<>>]]

Event(op, cid, note, dials, claimed, created, cb, applied) ==
    [op |-> op, cid |-> cid, note |-> note, dials |-> dials, claimed |-> claimed,
     created |-> created, cb |-> cb, applied |-> applied]

\* operations that neither dial nor handle a callback leave no record
Quiet(op, cid) == Event("", "", "", <<>>, <<>>, <<>>, NoCallback, FALSE)

---------------------------------------------------------------------------
(* Initial state: main() after SchedulerController.initialize() *)

CampaignRow(cid, status, interval, windows) ==
    [id |-> cid, status |-> status, start_time |-> NoTime, end_time |-> NoTime,
     call_interval |-> interval, time_of_day |-> windows]

\* one running campaign, open from 08:00 to 09:00, with two leads that share a
\* phone number
InitCampaigns == [cid \in {"c1"} |-> CampaignRow(cid, "running", 0, << Window(8, 0, 9, 0) >>)]
InitCustomers == << Lead("L1", "P1", "c1"), Lead("L2", "P1", "c1") >>

InitRest ==
    /\ now = StartClock
    /\ envEvents = 0
    /\ done = [cid \in Cids |-> {}]
    /\ done_phone = [cid \in Cids |-> {}]
    /\ inprogress = [cid \in Cids |-> {}]
    /\ inprog_phone = [cid \in Cids |-> {}]
    /\ retry = [cid \in Cids |-> EmptyMap]
    /\ call = EmptyMap
    /\ call_requests = <<>>
    /\ call_callbacks = <<>>
    /\ active_controllers = EmptyMap
    /\ controller_threads = EmptyMap
    /\ controller_loops = {}
    /\ controller_db_services = {}
    /\ controller_redis_services = {}
    /\ callbacks = <<>>
    /\ handling = "idle"
    /\ nextUuid = 1
    /\ awaiting = {}
    /\ not_before = EmptyMap
    /\ claims = [caller \in Callers |-> {}]
    /\ exhausted = {}
    /\ last_dial = EmptyMap
    /\ fifo = NoTraffic
    /\ issued = 0
    /\ finalized = {}
    /\ ev = Quiet("init", "")

Init ==
    /\ campaigns = InitCampaigns
    /\ customers = InitCustomers
    /\ config = [MAX_CONCURRENT_CAMPAIGNS |-> MAX_CONCURRENT_CAMPAIGNS]
    /\ InitRest

---------------------------------------------------------------------------
(* The environment: the clock, the campaign table, the Call Agent *)

Tick ==
    /\ now < StartClock + MaxElapsed
    /\ now' = now + 1
    /\ ev' = Quiet("tick", "")
    /\ UNCHANGED <<db, envEvents, store, queues, scheduler, callbacks, nextUuid, awaiting,
                   not_before, claims, exhausted, handling, last_dial, fifo, issued, finalized>>

EditStatus(cid, status) ==
    /\ envEvents < MaxEnvEvents
    /\ cid \in DOMAIN campaigns
    /\ campaigns[cid].status # status
    /\ campaigns' = [campaigns EXCEPT ![cid].status = status]
    /\ envEvents' = envEvents + 1
    /\ ev' = Quiet("edit", cid)
    /\ UNCHANGED <<now, customers, config, store, queues, scheduler, callbacks,
                   nextUuid, awaiting, not_before, claims, exhausted, handling, last_dial, fifo,
                   issued, finalized>>

Statuses == {"SUCCESS", "NO_ANSWER", "BUSY", "FAILED"}
CbAttempts == {0, 2}
CbMaxAttempts == {3}
CbRetryIntervals == {1, 2}

Callback(a, status, attempt, maxAttempts, retryInterval) ==
    [callId |-> a.callId, campaignId |-> a.campaignId, leadId |-> a.leadId,
     leadPhoneNumber |-> a.leadPhoneNumber, status |-> status, attempt |-> attempt,
     maxAttempts |-> maxAttempts, retryInterval |-> retryInterval]

\* CallAgent.process_call_request / send_callback: one outcome per call
AgentCallback(a, status, attempt, maxAttempts, retryInterval) ==
    /\ a \in awaiting
    /\ Len(call_callbacks) < MaxQueue
    /\ call_callbacks' = lpush(call_callbacks,
                               Callback(a, status, attempt, maxAttempts, retryInterval))
    /\ awaiting' = awaiting \ {a}
    /\ ev' = Quiet("agent", a.campaignId)
    /\ UNCHANGED <<now, db, envEvents, store, call_requests, scheduler, callbacks, nextUuid,
                   not_before, claims, exhausted, handling, last_dial, fifo, issued, finalized>>

---------------------------------------------------------------------------
(* The callback consumer: SchedulerController._callback_listener *)

\* get_call_callbacks(timeout=1): up to BatchSize messages, oldest first
GetCallCallbacks ==
    /\ callbacks = <<>>
    /\ call_callbacks # <<>>
    /\ LET got == brpop_batch(call_callbacks, BatchSize, <<>>)
       IN  /\ callbacks' = got.batch
           /\ call_callbacks' = got.list
    /\ ev' = Quiet("get_call_callbacks", "")
    /\ UNCHANGED <<now, db, envEvents, store, call_requests, scheduler, nextUuid, awaiting,
                   not_before, claims, exhausted, handling, last_dial, fifo, issued, finalized>>

\* a comparison that lets one attempt too many through
attempts_remain_or_equal(attempt, max_attempts) == attempt + 1 <= max_attempts

\* attempt + 1 < max_attempts
attempts_remain(attempt, max_attempts) == attempt + 1 < max_attempts

\* the retry payload built from a callback
RetryPayload(cb) ==
    [campaign_id |-> PStr(cb.campaignId), lead_id |-> PStr(cb.leadId),
     phone |-> PStr(cb.leadPhoneNumber), attempt |-> PInt(cb.attempt + 1),
     max_attempts |-> PInt(cb.maxAttempts), retry_interval_s |-> PInt(cb.retryInterval),
     call_id |-> PStr(cb.callId), last_outcome |-> PStr(cb.status)]

\* the store client the handler ends up using: the global one when the campaign
\* has no controller, else controller.redis; "none" when that is None, "closed"
\* when its connection is closed (every command then raises)
HandlerRedis(cid) ==
    IF cid \notin DOMAIN active_controllers THEN "open"
    ELSE active_controllers[cid].redis

\* _handle_call_callback on the head of the batch
HandleCallCallback ==
    /\ callbacks # <<>>
    /\ LET cb == Head(callbacks)
           cid == cb.campaignId
           applied == HandlerRedis(cid) = "open"
       IN  /\ IF ~applied THEN UNCHANGED <<store, not_before>>
              ELSE /\ IF cb.status = "SUCCESS"
                      THEN /\ done' = sadd(done, cid, cb.leadId)
                           /\ done_phone' = sadd(done_phone, cid, cb.leadPhoneNumber)
                           /\ call' = save_success_and_finalize(call, cb.callId)
                           /\ retry' = remove_retry(retry, cid, cb.callId)
                           /\ not_before' = Drop(not_before, {cb.callId})
                      ELSE IF attempts_remain(cb.attempt, cb.maxAttempts)
                      THEN /\ call' = save_failure_call(call, cb.callId, RetryPayload(cb))
                           /\ retry' = save_failure_retry(retry, cid, cb.callId, now,
                                                          cb.retryInterval)
                           /\ not_before' = Put(not_before, cb.callId,
                                                now + cb.retryInterval * TicksPerSecond)
                           /\ UNCHANGED <<done, done_phone>>
                      ELSE UNCHANGED <<done, done_phone, call, retry, not_before>>
                   /\ inprogress' = srem(inprogress, cid, cb.leadId)
                   /\ inprog_phone' = srem(inprog_phone, cid, cb.leadPhoneNumber)
           /\ exhausted' = IF applied /\ cb.status # "SUCCESS"
                              /\ ~attempts_remain(cb.attempt, cb.maxAttempts)
                           THEN exhausted \cup {<<cid, cb.leadId>>}
                           ELSE exhausted
           /\ ev' = Event("handle_call_callback", cid, HandlerRedis(cid),
                          <<>>, <<>>, <<>>, <<cb>>, applied)
    /\ callbacks' = Tail(callbacks)
    /\ UNCHANGED <<now, db, envEvents, queues, scheduler, nextUuid, awaiting, claims,
                   handling, last_dial, fifo, issued, finalized>>

---------------------------------------------------------------------------
(* The worker thread: _run_controller_thread and CampaignController.start *)

ThreadIs(cid, state) == cid \in DOMAIN controller_threads /\ controller_threads[cid] = state

\* the thread registers its loop, connects its database pool and its store
\* client, attaches the client to the controller and enters start()
ThreadStart(cid) ==
    /\ ThreadIs(cid, "new")
    /\ cid \in DOMAIN active_controllers
    /\ cid \in controller_db_services
    /\ cid \in controller_redis_services
    /\ controller_threads' = [controller_threads EXCEPT ![cid] = "running"]
    /\ controller_loops' = controller_loops \cup {cid}
    /\ active_controllers' = [active_controllers EXCEPT ![cid].redis = "open",
                                                        ![cid].is_running = TRUE]
    /\ ev' = Quiet("thread_start", cid)
    /\ UNCHANGED <<now, db, envEvents, store, queues, controller_db_services,
                   controller_redis_services, callbacks, nextUuid, awaiting,
                   not_before, claims, exhausted, handling, last_dial, fifo, issued, finalized>>

\* db.connect() or redis_svc.connect() raises: the thread ends without start()
ThreadCrash(cid) ==
    /\ ThreadIs(cid, "new")
    /\ envEvents < MaxEnvEvents
    /\ envEvents' = envEvents + 1
    /\ controller_threads' = [controller_threads EXCEPT ![cid] = "dead"]
    /\ controller_loops' = controller_loops \cup {cid}
    /\ ev' = Quiet("thread_crash", cid)
    /\ UNCHANGED <<now, db, store, queues, active_controllers, controller_db_services,
                   controller_redis_services, callbacks, nextUuid, awaiting,
                   not_before, claims, exhausted, handling, last_dial, fifo, issued, finalized>>

\* _create_call: the controller after it
_create_call(self, lead, t) ==
    [self EXCEPT !.last_call_time = Put(@, lead.id, t),
                 !.processed_leads = @ + 1,
                 !.inprogress_local = @ \cup {lead.id}]

\* an exception that leaves start()
start_reraise(self) == [self EXCEPT !.is_running = FALSE]

\* start(): except Exception: log, sleep(10), back to the loop condition
start_except(self) == self

\* one pass of the loop of start(): what it leaves behind
Iteration(cid, self, t) ==
    LET idle == [note |-> "", self |-> self, call |-> call, zset |-> retry[cid],
                 done |-> done[cid], inprogress |-> inprogress[cid],
                 inprog_phone |-> inprog_phone[cid],
                 dials |-> <<>>, claimed |-> <<>>, delays |-> EmptyMap, created |-> <<>>]
        interval == self.campaign.call_interval
    IN
    IF ~is_within_time_of_day(self.campaign, t)
    THEN [idle EXCEPT !.note = "out_of_window"]      \* sleep(30); continue
    ELSE IF interval > 0 /\ self.last_campaign_call_at # NoTime
                         /\ t - self.last_campaign_call_at < interval * TicksPerSecond
    THEN [idle EXCEPT !.note = "paced"]              \* sleep; continue
    ELSE \* _process_campaign_once
    LET claim == claim_due_retries(retry[cid], t, ClaimLimit)
        st == RetryLoop(cid, claim.ids,
                        [call |-> call, zset |-> claim.zset, done |-> done[cid],
                         dials |-> <<>>, delays |-> EmptyMap, error |-> FALSE], t)
        after == [idle EXCEPT !.call = st.call, !.zset = st.zset, !.done = st.done,
                              !.dials = st.dials, !.claimed = claim.ids,
                              !.delays = st.delays]
        accepted == FirstAccepted(self, t)
    IN  IF st.error THEN [after EXCEPT !.note = "error", !.self = start_except(@)]
        ELSE IF accepted = <<>> THEN [after EXCEPT !.note = "idle"]  \* sleep(5)
        ELSE LET lead == accepted[1]
                 call_id == Uuid(nextUuid)
                 message == create_call_message(call_id, self.campaign, lead)
             IN  [after EXCEPT
                    !.note = "made_call",
                    !.self = [_create_call(self, lead, t) EXCEPT !.last_campaign_call_at = t],
                    !.inprogress = @ \cup {lead.id},
                    !.inprog_phone = @ \cup {lead.phone_number},
                    !.dials = Append(@, Dial(cid, lead.id, lead.phone_number, call_id, FALSE, 0)),
                    !.created = <<message>>]

WorkerIterate(cid) ==
    /\ ThreadIs(cid, "running")
    /\ cid \in DOMAIN active_controllers
    /\ active_controllers[cid].is_running
    /\ ~active_controllers[cid].is_stopped
    /\ LET r == Iteration(cid, active_controllers[cid], now)
       IN  /\ r.created # <<>> => nextUuid <= MaxCalls
           /\ active_controllers' = [active_controllers EXCEPT ![cid] = r.self]
           /\ call' = r.call
           /\ retry' = [retry EXCEPT ![cid] = r.zset]
           /\ done' = [done EXCEPT ![cid] = r.done]
           /\ inprogress' = [inprogress EXCEPT ![cid] = r.inprogress]
           /\ inprog_phone' = [inprog_phone EXCEPT ![cid] = r.inprog_phone]
           /\ nextUuid' = nextUuid + Len(r.created)
           /\ awaiting' = awaiting \cup SeqToSet(r.created)
           /\ not_before' =
                 [id \in (DOMAIN not_before \ SeqToSet(r.claimed)) \cup DOMAIN r.delays |->
                     IF id \in DOMAIN r.delays THEN now + r.delays[id] * TicksPerSecond
                     ELSE not_before[id]]
           /\ ev' = Event("iterate", cid, r.note, r.dials, r.claimed, r.created,
                          NoCallback, FALSE)
           /\ last_dial' =
                 LET dialed == {<<cid, r.dials[i].lead>> : i \in DOMAIN r.dials}
                 IN  [x \in DOMAIN last_dial \cup dialed |->
                         IF x \in dialed THEN now ELSE last_dial[x]]
    /\ UNCHANGED <<now, db, envEvents, done_phone, queues, controller_threads,
                   controller_loops, controller_db_services, controller_redis_services,
                   callbacks, claims, exhausted, handling, fifo, issued, finalized>>

\* the loop condition of start() fails: self._finished = True; then the finally
\* of _run_controller_thread: db.disconnect(), redis_svc.close()
WorkerFinish(cid) ==
    /\ ThreadIs(cid, "running")
    /\ cid \in DOMAIN active_controllers
    /\ ~(active_controllers[cid].is_running /\ ~active_controllers[cid].is_stopped)
    /\ active_controllers' =
          [active_controllers EXCEPT
              ![cid].finished = TRUE,
              ![cid].redis = IF cid \in controller_redis_services THEN "closed" ELSE @]
    /\ controller_threads' = [controller_threads EXCEPT ![cid] = "dead"]
    /\ ev' = Quiet("worker_finish", cid)
    /\ UNCHANGED <<now, db, envEvents, store, queues, controller_loops,
                   controller_db_services, controller_redis_services,
                   callbacks, nextUuid, awaiting, not_before, claims, exhausted, handling,
                   last_dial, fifo, issued, finalized>>

---------------------------------------------------------------------------
(* SchedulerController.run_cycle *)

SchedulerMaps ==
    [controllers |-> active_controllers, threads |-> controller_threads,
     loops |-> controller_loops, db_services |-> controller_db_services,
     redis_services |-> controller_redis_services]

\* _cleanup_dead_controllers: the campaigns whose thread is not alive leave every
\* map but controller_redis_services
_cleanup_dead_controllers(m) ==
    LET dead == {cid \in DOMAIN m.threads : m.threads[cid] = "dead"}
    IN  [m EXCEPT !.controllers = Drop(@, dead), !.threads = Drop(@, dead),
                  !.loops = @ \ dead, !.db_services = @ \ dead]

\* a spawn loop that starts a controller for every eligible campaign
spawn_without_cap(active_campaigns, controllers) ==
    {cid \in SeqToSet(active_campaigns) :
        /\ cid \notin DOMAIN controllers
        /\ get_pending_leads_for_campaign(cid) # <<>>}

\* the campaigns the loop of _process_active_campaigns starts a controller for
ToSpawn(active_campaigns, controllers) ==
    LET current_thread_count == Cardinality(DOMAIN controllers)
        max_threads == config.MAX_CONCURRENT_CAMPAIGNS
        available_slots == max_threads - current_thread_count
        taken == IF available_slots < Len(active_campaigns)
                 THEN available_slots ELSE Len(active_campaigns)
    IN  IF current_thread_count >= max_threads THEN {}
        ELSE {cid \in SeqToSet(SubSeq(active_campaigns, 1, taken)) :
                 /\ cid \notin DOMAIN controllers
                 /\ get_pending_leads_for_campaign(cid) # <<>>}

_process_active_campaigns(m0, t) ==
    LET active_campaigns == filter_active_campaigns(get_running_campaigns, t)
        m == _cleanup_dead_controllers(m0)
        spawn == ToSpawn(active_campaigns, m.controllers)
    IN  [m EXCEPT
           !.controllers = [cid \in DOMAIN m.controllers \cup spawn |->
                              IF cid \in spawn THEN NewController(campaigns[cid])
                              ELSE m.controllers[cid]],
           !.threads = [cid \in DOMAIN m.threads \cup spawn |->
                              IF cid \in spawn THEN "new" ELSE m.threads[cid]],
           !.db_services = @ \cup spawn,
           !.redis_services = @ \cup spawn]

\* controller.stop() runs on the controller's loop, which must exist and be open
Stoppable(m, cid) ==
    /\ cid \in DOMAIN m.controllers
    /\ cid \in m.loops
    /\ cid \in DOMAIN m.threads
    /\ m.threads[cid] = "running"

_process_stopped_campaigns(m) ==
    LET stopped == SeqToSet(get_stopped_campaigns)
    IN  [m EXCEPT !.controllers =
            [cid \in DOMAIN m.controllers |->
                IF cid \in stopped /\ Stoppable(m, cid)
                THEN Stopped(m.controllers[cid]) ELSE m.controllers[cid]]]

\* a cleanup that takes the controllers told to stop, finished or not
cleanup_stopped_controllers(m) ==
    LET stopped == {cid \in DOMAIN m.controllers : m.controllers[cid].is_stopped}
    IN  [m EXCEPT !.controllers = Drop(@, stopped), !.threads = Drop(@, stopped),
                  !.loops = @ \ stopped, !.db_services = @ \ stopped,
                  !.redis_services = @ \ stopped]

_cleanup_finished_controllers(m) ==
    LET finished == {cid \in DOMAIN m.controllers : m.controllers[cid].finished}
    IN  [m EXCEPT !.controllers = Drop(@, finished), !.threads = Drop(@, finished),
                  !.loops = @ \ finished, !.db_services = @ \ finished,
                  !.redis_services = @ \ finished]

run_cycle ==
    /\ \E active \in {_process_active_campaigns(SchedulerMaps, now)} :
       \E stopped \in {_process_stopped_campaigns(active)} :
       \E m \in {_cleanup_finished_controllers(stopped)} :
           /\ active_controllers' = m.controllers
           /\ controller_threads' = m.threads
           /\ controller_loops' = m.loops
           /\ controller_db_services' = m.db_services
           /\ controller_redis_services' = m.redis_services
    /\ ev' = Quiet("run_cycle", "")
    /\ UNCHANGED <<now, db, envEvents, store, queues, callbacks, nextUuid, awaiting,
                   not_before, claims, exhausted, handling, last_dial, fifo, issued, finalized>>

---------------------------------------------------------------------------
(* The claim harness: several callers of claim_due_retries on one store *)

Delays == {0, 1}

\* save_failure_and_schedule_retry(cid, call_id, payload, delay_seconds) by any client
ScheduleRetry(cid, lead, attempt, delay_seconds) ==
    /\ nextUuid <= MaxRetries
    /\ LET call_id == Uuid(nextUuid)
           payload == [campaign_id |-> PStr(cid), lead_id |-> PStr(lead.id),
                       phone |-> PStr(lead.phone_number), attempt |-> PInt(attempt),
                       max_attempts |-> PInt(DefaultMaxAttempts),
                       retry_interval_s |-> PInt(delay_seconds),
                       call_id |-> PStr(call_id), last_outcome |-> PStr("FAILED")]
       IN  /\ call' = save_failure_call(call, call_id, payload)
           /\ retry' = save_failure_retry(retry, cid, call_id, now, delay_seconds)
           /\ not_before' = Put(not_before, call_id, now + delay_seconds * TicksPerSecond)
    /\ nextUuid' = nextUuid + 1
    /\ ev' = Quiet("schedule", cid)
    /\ UNCHANGED <<now, db, envEvents, done, done_phone, inprogress, inprog_phone, queues,
                   scheduler, callbacks, awaiting, claims, exhausted, handling, last_dial, fifo,
                   issued, finalized>>

\* claim_due_retries(cid, limit) by one caller, who read its clock at t; the
\* script runs in one step of the store
Claim(caller, cid, t, limit) ==
    /\ LET r == claim_due_retries(retry[cid], t, limit)
       IN  /\ retry' = [retry EXCEPT ![cid] = r.zset]
           /\ not_before' = Drop(not_before, SeqToSet(r.ids))
           /\ claims' = [claims EXCEPT ![caller] = @ \cup SeqToSet(r.ids)]
           /\ ev' = [op |-> "claim_due_retries", cid |-> cid, caller |-> caller,
                     t |-> t, limit |-> limit, ids |-> r.ids]
    /\ UNCHANGED <<now, db, envEvents, done, done_phone, inprogress, inprog_phone, call,
                   queues, scheduler, callbacks, nextUuid, awaiting, exhausted, handling,
                   last_dial, fifo, issued, finalized>>

NextClaim ==
    \/ Tick
    \/ \E attempt \in {1, 2}, delay_seconds \in Delays :
          ScheduleRetry(customers[1].campaign_id, customers[1], attempt, delay_seconds)
    \/ \E caller \in Callers, cid \in DOMAIN campaigns, t \in StartClock..now,
          limit \in {1, ClaimLimit} : Claim(caller, cid, t, limit)

SpecClaim == Init /\ [][NextClaim]_vars

---------------------------------------------------------------------------
(* One payload written, claimed when due and read back *)

Payloads ==
    [lead_id : {PStr("L1"), PStr("12")},
     phone : {PStr("P1"), PStr("5")},
     attempt : {PInt(1), PInt(2)},
     callback_conditions : {PList("[1]"), PStr("x")}]

\* save_failure_and_schedule_retry(cid, call_id, payload, delay_seconds)
SavePayload(cid, payload, delay_seconds) ==
    /\ call = EmptyMap
    /\ LET call_id == Uuid(nextUuid)
       IN  /\ call' = save_failure_call(call, call_id, payload)
           /\ retry' = save_failure_retry(retry, cid, call_id, now, delay_seconds)
           /\ not_before' = Put(not_before, call_id, now + delay_seconds * TicksPerSecond)
           /\ ev' = [op |-> "save_failure_and_schedule_retry", cid |-> cid,
                     call_id |-> call_id, written |-> payload, read |-> payload]
    /\ nextUuid' = nextUuid + 1
    /\ UNCHANGED <<now, db, envEvents, done, done_phone, inprogress, inprog_phone, queues,
                   scheduler, callbacks, awaiting, claims, exhausted, handling, last_dial, fifo,
                   issued, finalized>>

\* claim_due_retries(cid, limit=1), then get_call_payload of the id it returns,
\* for the payload written last
ClaimAndGet(cid) ==
    /\ ev.op = "save_failure_and_schedule_retry"
    /\ LET r == claim_due_retries(retry[cid], now, 1)
       IN  /\ r.ids = << ev.call_id >>
           /\ retry' = [retry EXCEPT ![cid] = r.zset]
           /\ not_before' = Drop(not_before, SeqToSet(r.ids))
           /\ ev' = [op |-> "get_call_payload", cid |-> cid, call_id |-> ev.call_id,
                     written |-> ev.written, read |-> get_call_payload(call, ev.call_id)]
    /\ UNCHANGED <<now, db, envEvents, done, done_phone, inprogress, inprog_phone, call,
                   queues, scheduler, callbacks, nextUuid, awaiting, claims, exhausted,
                   handling, last_dial, fifo, issued, finalized>>

NextRoundTrip ==
    \/ Tick
    \/ \E payload \in Payloads, delay_seconds \in Delays :
          SavePayload(customers[1].campaign_id, payload, delay_seconds)
    \/ \E cid \in DOMAIN campaigns : ClaimAndGet(cid)

SpecRoundTrip == Init /\ [][NextRoundTrip]_vars

---------------------------------------------------------------------------
(* is_within_time_of_day applied to campaigns with various time_of_day lists *)

\* windows as they may be configured: plain, zero-length, across midnight, with
\* values outside 0..23 and 0..59, and with a field that is no number
RawWindows ==
    { Window(8, 0, 9, 0), Window(9, 0, 9, 0), Window(22, 0, 2, 0),
      Window(0 - 1, 0, 0, 70), Window(23, 30, 24, 0), Window(Null, 0, 9, 0) }

WindowLists ==
    {<<>>} \cup {<<w>> : w \in RawWindows}
           \cup {<<v, w>> : v \in RawWindows, w \in RawWindows}

\* values of now, as hour and minute
ClockSamples == {<<0, 0>>, <<0, 58>>, <<1, 0>>, <<8, 59>>, <<9, 0>>, <<23, 15>>}

\* the tick of hour:minute:30
ClockTick(hm) == (hm[1] * 3600 + hm[2] * 60 + 30) * TicksPerSecond

InitWindows ==
    /\ \E windows \in WindowLists :
          campaigns = [cid \in {"c1"} |-> CampaignRow(cid, "running", 0, windows)]
    /\ customers = InitCustomers
    /\ config = [MAX_CONCURRENT_CAMPAIGNS |-> MAX_CONCURRENT_CAMPAIGNS]
    /\ InitRest

CheckTimeOfDay(cid, hm) ==
    /\ ev' = [op |-> "is_within_time_of_day", cid |-> cid, hour |-> hm[1],
              minute |-> hm[2],
              result |-> is_within_time_of_day(campaigns[cid], ClockTick(hm))]
    /\ UNCHANGED <<now, db, envEvents, store, queues, scheduler, callbacks, nextUuid,
                   awaiting, not_before, claims, exhausted, handling, last_dial, fifo,
                   issued, finalized>>

NextWindows == \E cid \in DOMAIN campaigns, hm \in ClockSamples : CheckTimeOfDay(cid, hm)

SpecWindows == InitWindows /\ [][NextWindows]_vars

---------------------------------------------------------------------------
Next ==
    \/ Tick
    \/ \E cid \in Cids, status \in CampaignStatuses : EditStatus(cid, status)
    \/ \E a \in awaiting, status \in Statuses, attempt \in CbAttempts,
          maxAttempts \in CbMaxAttempts, retryInterval \in CbRetryIntervals :
          AgentCallback(a, status, attempt, maxAttempts, retryInterval)
    \/ GetCallCallbacks
    \/ HandleCallCallback
    \/ \E cid \in Cids : ThreadStart(cid)
    \/ \E cid \in Cids : ThreadCrash(cid)
    \/ \E cid \in Cids : WorkerIterate(cid)
    \/ \E cid \in Cids : WorkerFinish(cid)
    \/ run_cycle

Spec == Init /\ [][Next]_vars

---------------------------------------------------------------------------
(* A campaign with one lead that an operator pauses and sets running again *)

InitRespawn ==
    /\ campaigns = InitCampaigns
    /\ customers = << Lead("L1", "P1", "c1") >>
    /\ config = [MAX_CONCURRENT_CAMPAIGNS |-> MAX_CONCURRENT_CAMPAIGNS]
    /\ InitRest

\* the campaigns row goes from paused back to running
Resume(cid) ==
    /\ cid \in DOMAIN campaigns
    /\ campaigns[cid].status = "paused"
    /\ campaigns' = [campaigns EXCEPT ![cid].status = "running"]
    /\ ev' = Quiet("edit", cid)
    /\ UNCHANGED <<now, customers, config, envEvents, store, queues, scheduler, callbacks,
                   nextUuid, awaiting, not_before, claims, exhausted, handling, last_dial, fifo,
                   issued, finalized>>

NextRespawn ==
    \/ Next
    \/ \E cid \in Cids : Resume(cid)

SpecRespawn == InitRespawn /\ [][NextRespawn]_vars

---------------------------------------------------------------------------
(* The store commands of the SUCCESS branch of _handle_call_callback taken one
   await at a time, with callbacks that may be delivered more than once *)

\* a callback for a call that has been reported before and has a stored payload
AgentCallbackAgain(call_id, status, attempt, maxAttempts, retryInterval) ==
    /\ HasPayload(call, call_id)
    /\ envEvents < MaxEnvEvents
    /\ envEvents' = envEvents + 1
    /\ Len(call_callbacks) < MaxQueue
    /\ LET a == [callId |-> call_id, campaignId |-> call[call_id].campaign_id,
                 leadId |-> call[call_id].lead_id,
                 leadPhoneNumber |-> call[call_id].phone]
       IN  call_callbacks' = lpush(call_callbacks,
                                   Callback(a, status, attempt, maxAttempts, retryInterval))
    /\ ev' = Quiet("agent", call[call_id].campaign_id)
    /\ UNCHANGED <<now, db, store, call_requests, scheduler, callbacks, nextUuid,
                   awaiting, not_before, claims, exhausted, handling, last_dial, fifo,
                   issued, finalized>>

\* mark_lead_success, mark_phone_success and save_success_and_finalize of a
\* SUCCESS callback; remove_retry is still to come
HandleSuccessFinalize ==
    /\ callbacks # <<>>
    /\ handling = "idle"
    /\ LET cb == Head(callbacks)
           cid == cb.campaignId
       IN  /\ cb.status = "SUCCESS"
           /\ HandlerRedis(cid) = "open"
           /\ done' = sadd(done, cid, cb.leadId)
           /\ done_phone' = sadd(done_phone, cid, cb.leadPhoneNumber)
           /\ call' = save_success_and_finalize(call, cb.callId)
           /\ handling' = IF cid \in DOMAIN active_controllers THEN "controller"
                           ELSE "global"
           /\ ev' = Quiet("handle_call_callback", cid)
    /\ UNCHANGED <<now, db, envEvents, inprogress, inprog_phone, retry, queues, scheduler,
                   callbacks, nextUuid, awaiting, not_before, claims, exhausted,
                   last_dial, fifo, issued, finalized>>

\* the client the handler holds since it began: the scheduler's own, or the
\* client of the controller it looked up, closed once that worker has exited
HeldRedis(cid) ==
    IF handling = "global" THEN "open"
    ELSE IF cid \in DOMAIN active_controllers THEN active_controllers[cid].redis
    ELSE "closed"

\* remove_retry and the clearing of the in-progress marks
HandleSuccessRemoveRetry ==
    /\ callbacks # <<>>
    /\ handling # "idle"
    /\ LET cb == Head(callbacks)
           cid == cb.campaignId
           applied == HeldRedis(cid) = "open"
       IN  /\ IF applied
              THEN /\ retry' = remove_retry(retry, cid, cb.callId)
                   /\ not_before' = Drop(not_before, {cb.callId})
                   /\ inprogress' = srem(inprogress, cid, cb.leadId)
                   /\ inprog_phone' = srem(inprog_phone, cid, cb.leadPhoneNumber)
              ELSE UNCHANGED <<retry, not_before, inprogress, inprog_phone>>
           /\ ev' = Event("handle_call_callback", cid, HeldRedis(cid),
                          <<>>, <<>>, <<>>, <<cb>>, applied)
    /\ callbacks' = Tail(callbacks)
    /\ handling' = "idle"
    /\ UNCHANGED <<now, db, envEvents, done, done_phone, call, queues, scheduler, nextUuid,
                   awaiting, claims, exhausted, last_dial, fifo, issued, finalized>>

\* every other callback: the handler issues at most one write before the
\* clearing of the in-progress marks
HandleOther ==
    /\ callbacks # <<>>
    /\ handling = "idle"
    /\ ~(Head(callbacks).status = "SUCCESS"
         /\ HandlerRedis(Head(callbacks).campaignId) = "open")
    /\ HandleCallCallback

NextPaired ==
    \/ Tick
    \/ \E cid \in Cids, status \in CampaignStatuses : EditStatus(cid, status)
    \/ \E a \in awaiting, status \in Statuses, attempt \in CbAttempts,
          maxAttempts \in CbMaxAttempts, retryInterval \in CbRetryIntervals :
          AgentCallback(a, status, attempt, maxAttempts, retryInterval)
    \/ \E call_id \in DOMAIN call, status \in Statuses, attempt \in CbAttempts,
          maxAttempts \in CbMaxAttempts, retryInterval \in CbRetryIntervals :
          AgentCallbackAgain(call_id, status, attempt, maxAttempts, retryInterval)
    \/ GetCallCallbacks
    \/ HandleSuccessFinalize
    \/ HandleSuccessRemoveRetry
    \/ HandleOther
    \/ \E cid \in Cids : ThreadStart(cid)
    \/ \E cid \in Cids : ThreadCrash(cid)
    \/ \E cid \in Cids : WorkerIterate(cid)
    \/ \E cid \in Cids : WorkerFinish(cid)
    \/ run_cycle

SpecPaired == InitRespawn /\ [][NextPaired]_vars

---------------------------------------------------------------------------
(* A campaign whose call_interval is one second *)

InitPaced ==
    /\ campaigns = [cid \in {"c1"} |->
                       CampaignRow(cid, "running", 1, << Window(8, 0, 9, 0) >>)]
    /\ customers = InitCustomers
    /\ config = [MAX_CONCURRENT_CAMPAIGNS |-> MAX_CONCURRENT_CAMPAIGNS]
    /\ InitRest

SpecPaced == InitPaced /\ [][Next]_vars

---------------------------------------------------------------------------
(* A campaign whose time_of_day an operator edits while it is running *)

\* the time_of_day column of the campaigns row is rewritten
EditWindows(cid, windows) ==
    /\ envEvents < MaxEnvEvents
    /\ cid \in DOMAIN campaigns
    /\ campaigns[cid].time_of_day # windows
    /\ campaigns' = [campaigns EXCEPT ![cid].time_of_day = windows]
    /\ envEvents' = envEvents + 1
    /\ ev' = Quiet("edit", cid)
    /\ UNCHANGED <<now, customers, config, store, queues, scheduler, callbacks,
                   nextUuid, awaiting, not_before, claims, exhausted, handling,
                   last_dial, fifo, issued, finalized>>

NextEdited ==
    \/ Next
    \/ \E cid \in Cids, windows \in { << Window(9, 0, 10, 0) >> } : EditWindows(cid, windows)

SpecEdited == InitRespawn /\ [][NextEdited]_vars

---------------------------------------------------------------------------
(* Two running campaigns and room for one worker *)

InitCap ==
    /\ campaigns = [cid \in Cids |->
                       CampaignRow(cid, "running", 0, << Window(8, 0, 9, 0) >>)]
    /\ customers = << Lead("L1", "P1", "c1"), Lead("L2", "P2", "c2") >>
    /\ config = [MAX_CONCURRENT_CAMPAIGNS |-> 1]
    /\ InitRest

SpecCap == InitCap /\ [][Next]_vars

---------------------------------------------------------------------------
(* Room for two workers; the second campaign of the list is paused at first *)

InitFill ==
    /\ campaigns = [cid \in Cids |->
                       CampaignRow(cid, IF cid = "c1" THEN "running" ELSE "paused", 0,
                                   << Window(8, 0, 9, 0) >>)]
    /\ customers = << Lead("L1", "P1", "c1"), Lead("L2", "P2", "c2") >>
    /\ config = [MAX_CONCURRENT_CAMPAIGNS |-> 2]
    /\ InitRest

\* the scheduler, the worker threads and the campaign table, with a Call Agent
\* that reports nothing
NextFill ==
    \/ Tick
    \/ \E cid \in Cids, status \in CampaignStatuses : EditStatus(cid, status)
    \/ \E cid \in Cids : Resume(cid)
    \/ \E cid \in Cids : ThreadStart(cid)
    \/ \E cid \in Cids : ThreadCrash(cid)
    \/ \E cid \in Cids : WorkerIterate(cid)
    \/ \E cid \in Cids : WorkerFinish(cid)
    \/ run_cycle

SpecFill == InitFill /\ [][NextFill]_vars

---------------------------------------------------------------------------
(* Progress: the main loop runs a cycle every CHECK_INTERVAL, a spawned thread
   gets to run, and a worker whose loop condition fails leaves start() *)

Progress ==
    /\ WF_vars(run_cycle)
    /\ \A cid \in Cids : WF_vars(ThreadStart(cid))
    /\ \A cid \in Cids : WF_vars(WorkerFinish(cid))

SpecLive == InitRespawn /\ [][Next]_vars /\ Progress

---------------------------------------------------------------------------
(* Properties *)

FailureStatuses == {"NO_ANSWER", "BUSY", "FAILED"}

\* C1. No dispatch after success: a worker iteration dials no lead that is in
\* the campaign's success set and no phone that is in its phone success set,
\* on the new-lead path and on the due-retry path alike.
NoDispatchAfterSuccess ==
    ev.op = "iterate" =>
        \A i \in 1..Len(ev.dials) :
            /\ ev.dials[i].lead \notin done[ev.cid]
            /\ ev.dials[i].phone \notin done_phone[ev.cid]

\* C2. Duplicate dispatch prevention: a worker iteration dials no lead that is
\* marked in-progress and no phone that is marked in-progress when the
\* iteration starts, that is, while a call created for it awaits its callback.
NoDuplicateDispatch ==
    [][ev'.op = "iterate" =>
        \A i \in 1..Len(ev'.dials) :
            /\ ev'.dials[i].lead \notin inprogress[ev'.cid]
            /\ ev'.dials[i].phone \notin inprog_phone[ev'.cid]]_vars

\* C3. Claim exclusivity: every id a claim_due_retries call returns was handed
\* to no caller before and occurs once in the result, was in the index with a
\* score no greater than the caller's now, and is out of the index after the
\* step; the result holds at most limit ids, and when it holds fewer than limit
\* it holds every due id.
ClaimExclusivity ==
    [][ev'.op = "claim_due_retries" =>
        LET ids == SeqToSet(ev'.ids)
            now_ts == int_time(ev'.t)
            zset == retry[ev'.cid]
        IN  /\ \A id \in ids : \A caller \in Callers : id \notin claims[caller]
            /\ Cardinality(ids) = Len(ev'.ids)
            /\ \A id \in ids : /\ id \in DOMAIN zset
                               /\ zset[id] <= now_ts
                               /\ id \notin DOMAIN retry'[ev'.cid]
            /\ Len(ev'.ids) <= ev'.limit
            /\ Len(ev'.ids) < ev'.limit =>
                  \A id \in DOMAIN zset : zset[id] <= now_ts => id \in ids]_vars

\* C3 witness: both callers have been handed ids, the last claim returned some
\* and left an id that is not due yet in the index.
ClaimExclusivityWitness ==
    /\ ev.op = "claim_due_retries"
    /\ ev.ids # <<>>
    /\ \A caller \in Callers : claims[caller] # {}
    /\ DOMAIN retry[ev.cid] # {}

\* C4. Retry monotonicity: every stored payload carries an attempt of at most
\* max_attempts - 1, and a step that rewrites the payload of a call_id stores a
\* greater attempt than the one it replaces.
RetryMonotonicity ==
    [][\A id \in DOMAIN call' :
        LET attempt(c) == PyInt(Maybe(c[id]["attempt"]))
            max_attempts(c) == PyInt(Maybe(c[id]["max_attempts"]))
        IN  /\ attempt(call') <= max_attempts(call') - 1
            /\ (id \in DOMAIN call /\ call'[id] # call[id]) =>
                  attempt(call') > attempt(call)]_vars

\* C4 witness: a worker has dialed a due retry and stored its payload again with
\* attempt 2, after the consumer stored it with attempt 1.
RetryMonotonicityWitness ==
    /\ ev.op = "iterate"
    /\ \E i \in 1..Len(ev.dials) :
          /\ ev.dials[i].is_retry
          /\ ev.dials[i].attempt = 1
          /\ ev.dials[i].call_id \in DOMAIN call
          /\ call[ev.dials[i].call_id]["attempt"] = "2"

\* C5. Due-time safety: a worker iteration claims no call_id before the time
\* its retry was stored at plus its delay.
DueTimeSafety ==
    [][ev'.op = "iterate" =>
        \A i \in 1..Len(ev'.claimed) :
            /\ ev'.claimed[i] \in DOMAIN not_before
            /\ not_before[ev'.claimed[i]] <= now]_vars

\* C6. Due-time liveness: a pass of the worker's loop made while a retry of its
\* campaign is due claims that retry and dials it.
DueRetryClaimedByNextIteration ==
    [][ev'.op = "iterate" =>
        \A id \in DueIds(retry[ev'.cid], int_time(now)) :
            /\ \E i \in 1..Len(ev'.claimed) : ev'.claimed[i] = id
            /\ \E i \in 1..Len(ev'.dials) : ev'.dials[i].call_id = id]_vars

\* C7. New-lead emission: an iteration that accepts a pending lead pushes exactly
\* one request onto call_requests, for that lead, with the fresh call_id,
\* is_retry false and attempt 0.
NewLeadEmission ==
    [][(ev'.op = "iterate" /\ ev'.created # <<>>) =>
        /\ Len(call_requests') = Len(call_requests) + 1
        /\ LET req == Head(call_requests')
           IN  /\ req.callId = ev'.created[1].callId
               /\ req.leadId = ev'.created[1].leadId
               /\ "is_retry" \in DOMAIN req /\ req.is_retry = FALSE
               /\ "attempt" \in DOMAIN req /\ req.attempt = 0]_vars

\* C8. Retry emission: for every call_id an iteration claims whose lead and phone
\* are not in the success sets, the iteration pushes a request for that lead
\* with a call_id other than the claimed one, and marks the lead and the phone
\* in-progress.
RetryEmission ==
    [][ev'.op = "iterate" =>
        \A i \in 1..Len(ev'.claimed) :
            LET id == ev'.claimed[i]
                payload == get_call_payload(call, id)
                lead_id == PyStr(payload["lead_id"])
                phone == PyStr(payload["phone"])
            IN  (/\ id \in DOMAIN call
                 /\ lead_id \notin done[ev'.cid]
                 /\ phone \notin done_phone[ev'.cid]) =>
                    /\ \E k \in 1..Len(call_requests') :
                          /\ call_requests'[k] \notin SeqToSet(call_requests)
                          /\ call_requests'[k].leadId = lead_id
                          /\ call_requests'[k].callId # id
                    /\ lead_id \in inprogress'[ev'.cid]
                    /\ phone \in inprog_phone'[ev'.cid]]_vars

\* C9. SUCCESS callback effect: when the consumer has handled a SUCCESS callback,
\* its lead is in done, its phone in done_phone, neither is in-progress, the
\* payload of its call_id is absent and the call_id is not in the retry index.
SuccessCallbackEffect ==
    (ev.op = "handle_call_callback" /\ ev.cb[1].status = "SUCCESS") =>
        LET cb == ev.cb[1]
            cid == cb.campaignId
        IN  /\ cb.leadId \in done[cid]
            /\ cb.leadPhoneNumber \in done_phone[cid]
            /\ cb.leadId \notin inprogress[cid]
            /\ cb.leadPhoneNumber \notin inprog_phone[cid]
            /\ cb.callId \notin DOMAIN call
            /\ cb.callId \notin DOMAIN retry[cid]

\* C10. Failure callback with attempts remaining: when the consumer handles a
\* failure callback with attempt + 1 < maxAttempts, it stores the payload of the
\* call_id with attempt + 1 and indexes the call_id with the score now plus the
\* callback's retry interval; no other entry of a retry index is added or moved.
FailureCallbackSchedulesRetry ==
    [][(/\ ev'.op = "handle_call_callback"
        /\ ev'.cb[1].status \in FailureStatuses
        /\ ev'.cb[1].attempt + 1 < ev'.cb[1].maxAttempts) =>
        LET cb == ev'.cb[1]
            cid == cb.campaignId
        IN  /\ cb.callId \in DOMAIN call'
            /\ call'[cb.callId]["attempt"] = ToString(cb.attempt + 1)
            /\ cb.callId \in DOMAIN retry'[cid]
            /\ retry'[cid][cb.callId] = int_time(now) + cb.retryInterval
            /\ \A c \in Cids : \A o \in DOMAIN retry'[c] \ {cb.callId} :
                  o \in DOMAIN retry[c] /\ retry'[c][o] = retry[c][o]]_vars

\* C11. Retry exhaustion is final: once the consumer has applied the callback of
\* a lead's last attempt (a failure with attempt + 1 >= maxAttempts), that call
\* is in no retry index, the lead is neither in-progress nor in the success set,
\* and no worker iteration dials the lead again.
RetryExhaustionIsFinal ==
    /\ \A x \in exhausted :
          /\ x[2] \notin inprogress[x[1]]
          /\ x[2] \notin done[x[1]]
          /\ ev.op = "iterate" => \A i \in DOMAIN ev.dials :
                                     <<ev.dials[i].cid, ev.dials[i].lead>> # x
    /\ (/\ ev.op = "handle_call_callback"
        /\ ev.applied
        /\ ev.cb[1].status # "SUCCESS"
        /\ ~attempts_remain(ev.cb[1].attempt, ev.cb[1].maxAttempts))
       => ev.cb[1].callId \notin DOMAIN retry[ev.cid]

\* C12. In-progress is always cleared: after the consumer has handled a callback
\* for (cid, lead, phone), whatever its status, the lead is not in
\* camp:{cid}:inprogress and the phone is not in camp:{cid}:inprog_phone.
InProgressAlwaysCleared ==
    ev.op = "handle_call_callback" =>
        /\ ev.cb[1].leadId \notin inprogress[ev.cid]
        /\ ev.cb[1].leadPhoneNumber \notin inprog_phone[ev.cid]

\* the store after the branch of _handle_call_callback taken when the campaign
\* has no controller, which uses the scheduler's own client
handle_without_controller(cb) ==
    LET cid == cb.campaignId
        success == cb.status = "SUCCESS"
        schedule == ~success /\ attempts_remain(cb.attempt, cb.maxAttempts)
    IN  << IF success THEN sadd(done, cid, cb.leadId) ELSE done,
           IF success THEN sadd(done_phone, cid, cb.leadPhoneNumber) ELSE done_phone,
           srem(inprogress, cid, cb.leadId),
           srem(inprog_phone, cid, cb.leadPhoneNumber),
           IF success THEN remove_retry(retry, cid, cb.callId)
           ELSE IF schedule
                THEN save_failure_retry(retry, cid, cb.callId, now, cb.retryInterval)
                ELSE retry,
           IF success THEN save_success_and_finalize(call, cb.callId)
           ELSE IF schedule THEN save_failure_call(call, cb.callId, RetryPayload(cb))
                ELSE call >>

\* C13. Callback handling is independent of the worker lifecycle: whatever the
\* state of the campaign's worker (none, not yet connected to the store, running,
\* exited and not yet reaped), handling a callback leaves the store as the
\* handler leaves it when the campaign has no worker.
CallbackHandlingIndependentOfWorker ==
    [][ev'.op = "handle_call_callback" =>
          store' = handle_without_controller(Head(callbacks))]_vars

\* the calls created for (cid, lead) whose callback the consumer has not handled:
\* not yet reported by the agent, queued in call_callbacks, or in the batch the
\* consumer is working through
Outstanding(cid, lead) ==
    /\ \/ \E a \in awaiting : a.campaignId = cid /\ a.leadId = lead
       \/ \E i \in DOMAIN call_callbacks :
             call_callbacks[i].campaignId = cid /\ call_callbacks[i].leadId = lead
       \/ \E i \in DOMAIN callbacks :
             callbacks[i].campaignId = cid /\ callbacks[i].leadId = lead

\* C14. In-progress means outstanding: every lead in camp:{cid}:inprogress has a
\* call created for it whose callback has not been consumed yet.
InProgressMeansOutstanding ==
    \A cid \in Cids : \A lead \in inprogress[cid] : Outstanding(cid, lead)

\* C15. Retry index and payload stay paired: in every state, every call_id that
\* is a member of a retry index camp:{cid}:retry has a payload call:{call_id}.
RetryIndexAndPayloadPaired ==
    \A cid \in Cids : \A call_id \in DOMAIN retry[cid] : HasPayload(call, call_id)

\* C16. Campaign pacing: a worker whose campaign has call_interval > 0 makes at
\* most one dial per iteration, new-lead call or retry, and no dial sooner than
\* call_interval seconds after its previous dial.
CampaignPacing ==
    [][(ev'.op = "iterate" /\ campaigns[ev'.cid].call_interval > 0
           /\ ev'.dials # <<>>) =>
          /\ Len(ev'.dials) = 1
          /\ \A x \in DOMAIN last_dial :
                x[1] = ev'.cid =>
                   now - last_dial[x] >= campaigns[ev'.cid].call_interval * TicksPerSecond]_vars

\* C17. Per-lead pacing: within one campaign a lead is dialed at most once per
\* iteration and never sooner than 60 seconds after its previous dial, new-lead
\* call or retry.
PerLeadPacing ==
    [][ev'.op = "iterate" =>
          \A i \in DOMAIN ev'.dials :
             /\ \A j \in DOMAIN ev'.dials : ev'.dials[j].lead = ev'.dials[i].lead => j = i
             /\ <<ev'.cid, ev'.dials[i].lead>> \in DOMAIN last_dial =>
                   now - last_dial[<<ev'.cid, ev'.dials[i].lead>>]
                       >= LeadMinGap * TicksPerSecond]_vars

\* C18. Time-of-day gate: a worker iteration makes no dial, new-lead call or
\* retry, while the current time is outside every time-of-day window configured
\* for its campaign.
TimeOfDayGate ==
    (ev.op = "iterate" /\ ev.dials # <<>>) =>
        is_within_time_of_day(campaigns[ev.cid], now)

\* C19. Exit on out-of-window: after a worker pass that started while the current
\* time was outside every time-of-day window of its campaign, the worker's loop
\* is over: its loop condition no longer holds.
ExitOnOutOfWindow ==
    (ev.op = "iterate" /\ ev.note = "out_of_window") =>
        ~(active_controllers[ev.cid].is_running /\ ~active_controllers[ev.cid].is_stopped)

\* C20. Concurrency cap: in every state the number of entries of
\* active_controllers is at most MAX_CONCURRENT_CAMPAIGNS.
ConcurrencyCap ==
    Cardinality(DOMAIN active_controllers) <= config.MAX_CONCURRENT_CAMPAIGNS

\* the cap is reached while a running campaign with pending leads, inside its
\* windows, has no worker
ConcurrencyCapWitness ==
    /\ Cardinality(DOMAIN active_controllers) = config.MAX_CONCURRENT_CAMPAIGNS
    /\ \E cid \in SeqToSet(filter_active_campaigns(get_running_campaigns, now)) :
          /\ cid \notin DOMAIN active_controllers
          /\ get_pending_leads_for_campaign(cid) # <<>>

\* the campaigns that are running, inside their absolute and time-of-day
\* windows, and have a pending lead
Eligible(t) ==
    {cid \in SeqToSet(filter_active_campaigns(get_running_campaigns, t)) :
        get_pending_leads_for_campaign(cid) # <<>>}

\* C21. The scheduler fills free slots: at the end of the spawn step of every
\* cycle, either the number of controllers equals MAX_CONCURRENT_CAMPAIGNS or
\* every eligible campaign with a pending lead has a controller.
SchedulerFillsFreeSlots ==
    [][run_cycle =>
          LET m == _process_active_campaigns(SchedulerMaps, now)
          IN  \/ Cardinality(DOMAIN m.controllers) = config.MAX_CONCURRENT_CAMPAIGNS
              \/ Eligible(now) \subseteq DOMAIN m.controllers]_vars

StoppedStatus(cid) ==
    cid \in DOMAIN campaigns /\ campaigns[cid].status \in {"paused", "ended"}

\* the scheduler holds nothing for the campaign and its database pool is released
Reaped(cid) ==
    /\ cid \notin DOMAIN active_controllers
    /\ cid \notin DOMAIN controller_threads
    /\ cid \notin controller_loops
    /\ cid \notin controller_db_services

NotRunning(cid) == cid \in DOMAIN campaigns /\ campaigns[cid].status # "running"

\* C23. Shutdown on loss of eligibility: a campaign with a worker whose status is
\* anything other than running, and stays so, eventually has its worker shut
\* down and removed.
ShutdownOnLossOfEligibility ==
    \A cid \in Cids :
       (NotRunning(cid) /\ cid \in DOMAIN active_controllers)
           ~> (~NotRunning(cid) \/ Reaped(cid))

\* C24. Dead-worker recovery: a cycle that starts while a campaign's thread is
\* dead either gives the campaign a new worker or leaves it in none of the
\* per-campaign maps: controller, thread, event loop, database handle and store
\* connection.
DeadWorkerRecovery ==
    [][run_cycle =>
          \A cid \in DOMAIN controller_threads :
             controller_threads[cid] = "dead" =>
                \/ /\ cid \in DOMAIN active_controllers'
                   /\ cid \in DOMAIN controller_threads'
                   /\ controller_threads'[cid] = "new"
                \/ /\ cid \notin DOMAIN active_controllers'
                   /\ cid \notin DOMAIN controller_threads'
                   /\ cid \notin controller_loops'
                   /\ cid \notin controller_db_services'
                   /\ cid \notin controller_redis_services']_vars

\* C25. Payload round-trip: the payload get_call_payload returns for a call_id
\* that was stored by save_failure_and_schedule_retry and claimed when due has
\* the fields that were written, strings as the same strings, integers as
\* integers and lists as lists.
PayloadRoundTrip ==
    ev.op = "get_call_payload" => ev.read = ev.written

\* a window with its hours clamped to 0..23 and its minutes to 0..59
ClampedStart(w) == Clamp(0, 23, w.fromHour) * 60 + Clamp(0, 59, w.fromMinute)
ClampedEnd(w) == Clamp(0, 23, w.toHour) * 60 + Clamp(0, 59, w.toMinute)

NoValidWindowNoRestriction ==
    ev.op = "is_within_time_of_day" =>
        LET windows == _parse_time_windows(campaigns[ev.cid].time_of_day)
        IN  (\A i \in DOMAIN windows : ClampedStart(windows[i]) = ClampedEnd(windows[i]))
               => ev.result

---------------------------------------------------------------------------
(* The two queues on their own: send_call_request / get_call_requests and
   send_call_callback / get_call_callbacks, one consumer per list, the pushes
   of the producer falling anywhere between the BRPOPs of a batch *)

MaxSent == 11

\* json.dumps of a message and json.loads of the text
json_dumps(msg) == [text |-> msg]
json_loads(s) == s.text

QueueList(q) == IF q = "call_requests" THEN call_requests ELSE call_callbacks

SetQueueList(q, list) ==
    /\ call_requests' = IF q = "call_requests" THEN list ELSE call_requests
    /\ call_callbacks' = IF q = "call_callbacks" THEN list ELSE call_callbacks

\* send_call_request / send_call_callback: lpush(name, json.dumps(message))
SendMessage(q) ==
    /\ Len(fifo["call_requests"].sent) + Len(fifo["call_callbacks"].sent) < MaxSent
    /\ LET message == [callId |-> Len(fifo[q].sent) + 1]
       IN  /\ SetQueueList(q, lpush(QueueList(q), json_dumps(message)))
           /\ fifo' = [fifo EXCEPT ![q].sent = Append(@, message)]
    /\ ev' = [op |-> "send", queue |-> q, batch |-> <<>>]
    /\ UNCHANGED <<now, db, envEvents, store, scheduler, callbacks, handling, nextUuid,
                   awaiting, not_before, claims, exhausted, last_dial, issued, finalized>>

\* one turn of the loop of get_call_requests / get_call_callbacks that finds a
\* message: brpop, json.loads, append
BrpopMessage(q) ==
    /\ Len(fifo[q].batch) < BatchSize
    /\ QueueList(q) # <<>>
    /\ LET got == brpop_batch(QueueList(q), 1, <<>>)
       IN  /\ SetQueueList(q, got.list)
           /\ fifo' = [fifo EXCEPT ![q].batch = Append(@, json_loads(got.batch[1]))]
    /\ ev' = [op |-> "brpop", queue |-> q, batch |-> <<>>]
    /\ UNCHANGED <<now, db, envEvents, store, scheduler, callbacks, handling, nextUuid,
                   awaiting, not_before, claims, exhausted, last_dial, issued, finalized>>

\* the loop ends, after range(10) or on a brpop that timed out on the empty
\* list, and the batch is returned
ReturnBatch(q) ==
    /\ Len(fifo[q].batch) = BatchSize \/ QueueList(q) = <<>>
    /\ fifo' = [fifo EXCEPT ![q].batch = <<>>, ![q].returned = @ \o fifo[q].batch]
    /\ ev' = [op |-> "return_batch", queue |-> q, batch |-> fifo[q].batch]
    /\ UNCHANGED <<now, db, envEvents, store, queues, scheduler, callbacks, handling,
                   nextUuid, awaiting, not_before, claims, exhausted, last_dial,
                   issued, finalized>>

NextQueue ==
    \E q \in QueueNames : SendMessage(q) \/ BrpopMessage(q) \/ ReturnBatch(q)

SpecQueue == Init /\ [][NextQueue]_vars

\* the messages of a list, the next to be popped first
Waiting(q) ==
    LET list == QueueList(q)
    IN  [i \in 1..Len(list) |-> json_loads(list[Len(list) + 1 - i])]

\* C28. Queue FIFO: for any interleaving of pushes and pops on call_requests
\* (and likewise on call_callbacks), the concatenation of the popped batches is
\* a prefix of the pushed sequence in push order: no message is lost,
\* duplicated or reordered, and each batch holds at most 10 messages.
QueueFIFO ==
    \A q \in QueueNames :
        /\ Len(fifo[q].returned) <= Len(fifo[q].sent)
        /\ SubSeq(fifo[q].sent, 1, Len(fifo[q].returned)) = fifo[q].returned
        /\ fifo[q].sent = fifo[q].returned \o fifo[q].batch \o Waiting(q)
        /\ (ev.op = "return_batch" => Len(ev.batch) <= BatchSize)

\* a full batch was returned while a later message waited, and that message
\* was returned in the batch after it
QueueFIFOWitness ==
    \E q \in QueueNames :
        /\ Len(fifo[q].returned) > BatchSize
        /\ ev.op = "return_batch"

---------------------------------------------------------------------------
(* Errors inside the loops *)

\* the worker of cid is inside the while of start(), its thread alive
InLoop(cid) ==
    /\ ThreadIs(cid, "running")
    /\ cid \in DOMAIN active_controllers
    /\ active_controllers[cid].is_running
    /\ ~active_controllers[cid].is_stopped
    /\ ~active_controllers[cid].finished

\* C29. Errors never kill a loop: an error raised inside a worker iteration
\* (here the missing payload of a claimed retry) leaves the worker alive and
\* inside its loop, to run another iteration after the back-off, and nothing of
\* it reaches the scheduler; an error while handling one callback (here a store
\* client that is closed) leaves the consumer at the next callback of the batch.
ErrorsNeverKillALoop ==
    [][ /\ \A cid \in Cids :
              (ev'.op = "iterate" /\ ev'.note = "error" /\ ev'.cid = cid) =>
              /\ InLoop(cid)'
              /\ controller_threads' = controller_threads
              /\ DOMAIN active_controllers' = DOMAIN active_controllers
        /\ (ev'.op = "handle_call_callback" /\ ev'.note = "closed" /\ callbacks # <<>>) =>
              /\ callbacks' = Tail(callbacks)
              /\ handling' = "idle"
      ]_vars

\* a pass that claimed a retry and raised on its missing payload, the worker
\* still inside its loop
ErrorsNeverKillALoopWitness ==
    /\ ev.op = "iterate"
    /\ ev.note = "error"
    /\ InLoop(ev.cid)
    /\ ev.claimed # <<>>

\* C30. At most one dial per iteration: in a single worker iteration (one call
\* of _process_campaign_once) at most one call is made in total, retry dials
\* and new-lead calls counted together, even when several retries are due and
\* pending leads exist.
AtMostOneDialPerIteration ==
    ev.op = "iterate" => Len(ev.dials) <= 1

\* C31. Retries are preferred over new leads: in a worker iteration in which a
\* due retry is claimed and dispatched no new lead is dispatched; the pending
\* leads are consulted only when no retry was dispatched in that iteration.
RetriesPreferredOverNewLeads ==
    ev.op = "iterate" =>
        ((\E i \in DOMAIN ev.dials : ev.dials[i].is_retry)
            => \A i \in DOMAIN ev.dials : ev.dials[i].is_retry)

---------------------------------------------------------------------------
(* _handle_call_callback one store command at a time: every await of the
   handler is a point where the workers and the scheduler may run *)

\* a handler that deletes the payload and the index entry before it marks
finalize_before_mark(cb) ==
    IF cb.status = "SUCCESS"
    THEN << "save_success_and_finalize", "remove_retry", "mark_lead_success",
            "mark_phone_success", "clear_inprogress", "clear_phone_inprogress" >>
    ELSE IF attempts_remain(cb.attempt, cb.maxAttempts)
    THEN << "save_failure_and_schedule_retry", "clear_inprogress", "clear_phone_inprogress" >>
    ELSE << "clear_inprogress", "clear_phone_inprogress" >>

\* the store commands the handler issues for a callback, in the order of the code
HandlerCommands(cb) ==
    IF cb.status = "SUCCESS"
    THEN << "mark_lead_success", "mark_phone_success", "save_success_and_finalize",
            "remove_retry", "clear_inprogress", "clear_phone_inprogress" >>
    ELSE IF attempts_remain(cb.attempt, cb.maxAttempts)
    THEN << "save_failure_and_schedule_retry", "clear_inprogress", "clear_phone_inprogress" >>
    ELSE << "clear_inprogress", "clear_phone_inprogress" >>

\* the commands under one `if controller.redis:` test form a block: the four
\* of a SUCCESS, the one of a retry, the two that clear
SuccessBlock == {"mark_lead_success", "mark_phone_success", "save_success_and_finalize",
                 "remove_retry"}
ClearBlock == {"clear_inprogress", "clear_phone_inprogress"}
SameBlock(c, d) ==
    \/ c \in SuccessBlock /\ d \in SuccessBlock
    \/ c \in ClearBlock /\ d \in ClearBlock
    \/ c = d

\* the commands issued once the block of commands[k] is skipped
AfterBlock(commands, k) ==
    LET rest == {j \in k..Len(commands) : ~SameBlock(commands[k], commands[j])}
    IN  IF rest = {} THEN Len(commands) ELSE (CHOOSE j \in rest : \A i \in rest : j <= i) - 1

\* the client the handler uses: looked up when it begins, held afterwards
StepRedis(cid) == IF issued = 0 THEN HandlerRedis(cid) ELSE HeldRedis(cid)

\* where the handler stands after commands[k] with the client in state redis:
\* "none" fails the test of the block; on "closed" the command raises, which the
\* inner try around finalize-and-remove and remove_retry itself swallow and
\* which ends the handler anywhere else
AfterCommand(commands, k, redis) ==
    IF redis = "none" THEN AfterBlock(commands, k)
    ELSE IF redis = "open" \/ commands[k] = "remove_retry" THEN k
    ELSE IF commands[k] = "save_success_and_finalize" THEN AfterBlock(commands, k)
    ELSE Len(commands)

\* one command of the handler on the head of the batch
HandleCommand ==
    /\ callbacks # <<>>
    /\ LET cb == Head(callbacks)
           cid == cb.campaignId
           commands == HandlerCommands(cb)
           k == issued + 1
           command == commands[k]
           redis == StepRedis(cid)
           applied == redis = "open"
           reached == AfterCommand(commands, k, redis)
           key == << cid, cb.leadId, cb.leadPhoneNumber >>
       IN  /\ done' = IF applied /\ command = "mark_lead_success"
                      THEN sadd(done, cid, cb.leadId) ELSE done
           /\ done_phone' = IF applied /\ command = "mark_phone_success"
                            THEN sadd(done_phone, cid, cb.leadPhoneNumber) ELSE done_phone
           /\ call' = IF applied /\ command = "save_success_and_finalize"
                      THEN save_success_and_finalize(call, cb.callId)
                      ELSE IF applied /\ command = "save_failure_and_schedule_retry"
                      THEN save_failure_call(call, cb.callId, RetryPayload(cb))
                      ELSE call
           /\ retry' = IF applied /\ command = "remove_retry"
                       THEN remove_retry(retry, cid, cb.callId)
                       ELSE IF applied /\ command = "save_failure_and_schedule_retry"
                       THEN save_failure_retry(retry, cid, cb.callId, now, cb.retryInterval)
                       ELSE retry
           /\ not_before' = IF applied /\ command = "remove_retry"
                            THEN Drop(not_before, {cb.callId})
                            ELSE IF applied /\ command = "save_failure_and_schedule_retry"
                            THEN Put(not_before, cb.callId,
                                     now + cb.retryInterval * TicksPerSecond)
                            ELSE not_before
           /\ inprogress' = IF applied /\ command = "clear_inprogress"
                            THEN srem(inprogress, cid, cb.leadId) ELSE inprogress
           /\ inprog_phone' = IF applied /\ command = "clear_phone_inprogress"
                              THEN srem(inprog_phone, cid, cb.leadPhoneNumber)
                              ELSE inprog_phone
           /\ finalized' = IF applied /\ command \in {"save_success_and_finalize",
                                                      "remove_retry"}
                           THEN finalized \cup {key} ELSE finalized
           /\ exhausted' = IF applied /\ command = "clear_inprogress"
                              /\ cb.status # "SUCCESS"
                              /\ ~attempts_remain(cb.attempt, cb.maxAttempts)
                           THEN exhausted \cup {<<cid, cb.leadId>>}
                           ELSE exhausted
           /\ IF reached = Len(commands)
              THEN /\ callbacks' = Tail(callbacks)
                   /\ handling' = "idle"
                   /\ issued' = 0
              ELSE /\ callbacks' = callbacks
                   /\ handling' = IF issued > 0 THEN handling
                                   ELSE IF cid \in DOMAIN active_controllers
                                   THEN "controller" ELSE "global"
                   /\ issued' = reached
           /\ ev' = [op |-> "handler_command", cid |-> cid, command |-> command,
                     note |-> redis, cb |-> cb, applied |-> applied,
                     returned |-> reached = Len(commands),
                     dials |-> <<>>, claimed |-> <<>>, created |-> <<>>]
    /\ UNCHANGED <<now, db, envEvents, queues, scheduler, nextUuid, awaiting, claims,
                   last_dial, fifo>>

NextCommands ==
    \/ Tick
    \/ \E cid \in Cids, status \in CampaignStatuses : EditStatus(cid, status)
    \/ \E a \in awaiting, status \in Statuses, attempt \in CbAttempts,
          maxAttempts \in CbMaxAttempts, retryInterval \in CbRetryIntervals :
          AgentCallback(a, status, attempt, maxAttempts, retryInterval)
    \/ \E call_id \in DOMAIN call, status \in Statuses, attempt \in CbAttempts,
          maxAttempts \in CbMaxAttempts, retryInterval \in CbRetryIntervals :
          AgentCallbackAgain(call_id, status, attempt, maxAttempts, retryInterval)
    \/ GetCallCallbacks
    \/ HandleCommand
    \/ \E cid \in Cids : ThreadStart(cid)
    \/ \E cid \in Cids : ThreadCrash(cid)
    \/ \E cid \in Cids : WorkerIterate(cid)
    \/ \E cid \in Cids : WorkerFinish(cid)
    \/ run_cycle

SpecCommands == InitRespawn /\ [][NextCommands]_vars

\* C32. Success is marked before finalization: in every reachable state in which
\* the consumer, handling a SUCCESS callback, has deleted call:{call_id} or
\* removed call_id from the retry index, the lead is in camp:{cid}:done and the
\* phone in camp:{cid}:done_phone.
SuccessMarkedBeforeFinalization ==
    \A key \in finalized : key[2] \in done[key[1]] /\ key[3] \in done_phone[key[1]]

\* the payload of a SUCCESS callback was deleted and the handler has not yet
\* returned
SuccessMarkedBeforeFinalizationWitness ==
    /\ finalized # {}
    /\ ev.op = "handler_command"
    /\ ev.command = "save_success_and_finalize"
    /\ ev.applied
    /\ issued > 0

\* C33. Exhausted callback transition: for a callback with status NO_ANSWER,
\* BUSY or FAILED and attempt + 1 >= max_attempts the consumer writes no
\* call:{call_id} payload, adds nothing to camp:{cid}:retry, leaves
\* camp:{cid}:done and done_phone unchanged, and clears the in-progress flags of
\* the lead and of the phone.
ExhaustedCallbackTransition ==
    [][ (/\ ev'.op = "handle_call_callback"
         /\ callbacks # <<>>
         /\ Head(callbacks).status # "SUCCESS"
         /\ ~attempts_remain(Head(callbacks).attempt, Head(callbacks).maxAttempts))
        => LET cb == Head(callbacks)
           IN  /\ call' = call
               /\ retry' = retry
               /\ done' = done
               /\ done_phone' = done_phone
               /\ cb.leadId \notin inprogress'[cb.campaignId]
               /\ cb.leadPhoneNumber \notin inprog_phone'[cb.campaignId]
      ]_vars

---------------------------------------------------------------------------
(* A campaign whose row is edited or deleted while its worker runs *)

\* the row of the campaign is deleted from the campaigns table
DeleteCampaign(cid) ==
    /\ envEvents < MaxEnvEvents
    /\ cid \in DOMAIN campaigns
    /\ campaigns' = Drop(campaigns, {cid})
    /\ envEvents' = envEvents + 1
    /\ ev' = Quiet("delete", cid)
    /\ UNCHANGED <<now, customers, config, store, queues, scheduler, callbacks,
                   nextUuid, awaiting, not_before, claims, exhausted, handling,
                   last_dial, fifo, issued, finalized>>

NextRepository ==
    \/ NextEdited
    \/ \E cid \in Cids : DeleteCampaign(cid)

SpecRepository == InitRespawn /\ [][NextRepository]_vars

\* C34. Worker follows the repository: a live worker re-reads its campaign
\* record at every iteration, so after an iteration its copy is the row of the
\* table; when the row has disappeared the iteration dispatches nothing and the
\* worker exits: its loop has ended and it reports finished.
WorkerFollowsRepository ==
    ev.op = "iterate" =>
        IF ev.cid \in DOMAIN campaigns
        THEN active_controllers[ev.cid].campaign = campaigns[ev.cid]
        ELSE /\ ev.dials = <<>>
             /\ active_controllers[ev.cid].finished

---------------------------------------------------------------------------
(* A campaign whose two leads have a phone number each *)

InitLeads ==
    /\ campaigns = InitCampaigns
    /\ customers = << Lead("L1", "P1", "c1"), Lead("L2", "P2", "c1") >>
    /\ config = [MAX_CONCURRENT_CAMPAIGNS |-> MAX_CONCURRENT_CAMPAIGNS]
    /\ InitRest

\* every action of Next, the agent reporting one retry interval
NextLeads ==
    \/ Tick
    \/ \E cid \in Cids, status \in CampaignStatuses : EditStatus(cid, status)
    \/ \E a \in awaiting, status \in Statuses, attempt \in CbAttempts,
          maxAttempts \in CbMaxAttempts :
          AgentCallback(a, status, attempt, maxAttempts, 1)
    \/ GetCallCallbacks
    \/ HandleCallCallback
    \/ \E cid \in Cids : ThreadStart(cid)
    \/ \E cid \in Cids : ThreadCrash(cid)
    \/ \E cid \in Cids : WorkerIterate(cid)
    \/ \E cid \in Cids : WorkerFinish(cid)
    \/ run_cycle

SpecLeads == InitLeads /\ [][NextLeads]_vars

\* C35. Success sets are monotonic: no operation of a worker, the scheduler or
\* the callback consumer removes a member from camp:{cid}:done or
\* camp:{cid}:done_phone: a lead or phone in a success set stays in it.
SuccessSetsMonotonic ==
    [][\A cid \in Cids : /\ done[cid] \subseteq done'[cid]
                         /\ done_phone[cid] \subseteq done_phone'[cid]]_vars

\* both leads of the campaign are in its success set and the worker has run an
\* iteration since
SuccessSetsMonotonicWitness ==
    /\ Cardinality(done["c1"]) = 2
    /\ Cardinality(done_phone["c1"]) = 2
    /\ ev.op = "iterate"

\* C36. One dispatching worker per campaign: the scheduler never spawns a worker
\* for a campaign that is a key of active_controllers, and it removes a key only
\* after that worker's thread is dead or its loop has finished; so at most one
\* worker whose dispatch loop is still running exists per campaign.
OneDispatchingWorkerPerCampaign ==
    [][\A cid \in Cids :
          LET had == cid \in DOMAIN active_controllers
              loop_over == \/ ThreadIs(cid, "dead")
                           \/ had /\ active_controllers[cid].finished
              spawned == /\ cid \in DOMAIN controller_threads'
                         /\ controller_threads'[cid] = "new"
                         /\ ~ThreadIs(cid, "new")
              removed == had /\ (cid \notin DOMAIN active_controllers' \/ spawned)
          IN  /\ spawned => (~had \/ loop_over)
              /\ removed => loop_over
              /\ InLoop(cid)' => cid \in DOMAIN active_controllers'
      ]_vars

\* a second worker of the campaign, spawned after the first one made a call,
\* was stopped and was removed
OneDispatchingWorkerPerCampaignWitness ==
    /\ ThreadIs("c1", "new")
    /\ nextUuid > 1
    /\ ~active_controllers["c1"].is_stopped

\* C37. A lead with a pending retry is not re-dialed as a new lead: while a
\* call_id whose payload names lead L is in camp:{cid}:retry, no worker of cid,
\* the one that first dialed L or one spawned later, dispatches L through the
\* new-lead path. (The new-lead path runs after the retries of the pass and
\* writes neither the index nor a payload, so the index it runs against is the
\* one the pass leaves.)
PendingRetryNotRedialedAsNew ==
    ev.op = "iterate" =>
        \A i \in DOMAIN ev.dials :
            ~ev.dials[i].is_retry =>
                \A id \in DOMAIN retry[ev.cid] :
                    HasPayload(call, id) => call[id].lead_id # ev.dials[i].lead

---------------------------------------------------------------------------
(* The two-lead campaign with the SUCCESS handler in two steps and duplicate
   callbacks, while the campaign stays running *)

NextPairedLeads ==
    \/ Tick
    \/ \E a \in awaiting, status \in Statuses, attempt \in CbAttempts,
          maxAttempts \in CbMaxAttempts :
          AgentCallback(a, status, attempt, maxAttempts, 1)
    \/ \E call_id \in DOMAIN call, status \in Statuses, attempt \in CbAttempts,
          maxAttempts \in CbMaxAttempts :
          AgentCallbackAgain(call_id, status, attempt, maxAttempts, 1)
    \/ GetCallCallbacks
    \/ HandleSuccessFinalize
    \/ HandleSuccessRemoveRetry
    \/ HandleOther
    \/ \E cid \in Cids : ThreadStart(cid)
    \/ \E cid \in Cids : WorkerIterate(cid)
    \/ run_cycle

SpecPairedLeads == Init /\ [][NextPairedLeads]_vars

\* C38. Claimed retries are never lost: every call_id claim_due_retries returned
\* in a worker iteration is, when the iteration ends, either back in
\* camp:{cid}:retry together with its payload or without a payload, even when an
\* earlier call_id of the batch raised; no claimed call:{call_id} payload stays
\* in the store without an index entry.
ClaimedRetriesNeverLost ==
    ev.op = "iterate" =>
        \A i \in DOMAIN ev.claimed :
            HasPayload(call, ev.claimed[i]) => ev.claimed[i] \in DOMAIN retry[ev.cid]

\* the attempt and max_attempts a worker reads from the payload of a call
StoredAttempt(c, call_id) ==
    PyInt(PayloadGet(get_call_payload(c, call_id), "attempt", PInt(0)))
StoredMaxAttempts(c, call_id) ==
    PyInt(PayloadGet(get_call_payload(c, call_id), "max_attempts", PInt(DefaultMaxAttempts)))

\* C39. Every retry chain terminates: with no further callback for a call_id,
\* each claim of it by an iterating worker either deletes its payload, after
\* which the worker never indexes it again, or stores it again, indexed, with a
\* strictly greater attempt that is still below max_attempts; so a pending
\* retry with attempt a and max_attempts m has its payload deleted after at
\* most m - a claims.
RetryChainTerminates ==
    [][ev'.op = "iterate" =>
          /\ \A i \in DOMAIN ev'.claimed :
                LET id == ev'.claimed[i]
                IN  \/ ~HasPayload(call', id)
                    \/ /\ HasPayload(call, id)
                       /\ id \in DOMAIN retry'[ev'.cid]
                       /\ StoredAttempt(call', id) > StoredAttempt(call, id)
                       /\ StoredAttempt(call', id) < StoredMaxAttempts(call', id)
          /\ \A id \in DOMAIN retry'[ev'.cid] :
                ~HasPayload(call, id) => id \in DOMAIN retry[ev'.cid]
      ]_vars

\* C40. Callback handling is confined to its own campaign: handling a callback
\* for campaign c and call X changes only camp:{c}:done, done_phone, inprogress,
\* inprog_phone, retry and call:{X}; the sets, the retry index and the payloads
\* of every other campaign and call, and both queues, are unchanged.
CallbackHandlingConfined ==
    [][(ev'.op = "handle_call_callback" /\ callbacks # <<>>) =>
          LET cb == Head(callbacks)
          IN  /\ \A c \in Cids \ {cb.campaignId} :
                    /\ done'[c] = done[c]
                    /\ done_phone'[c] = done_phone[c]
                    /\ inprogress'[c] = inprogress[c]
                    /\ inprog_phone'[c] = inprog_phone[c]
                    /\ retry'[c] = retry[c]
              /\ \A id \in (DOMAIN call \cup DOMAIN call') \ {cb.callId} :
                    /\ id \in DOMAIN call
                    /\ id \in DOMAIN call'
                    /\ call'[id] = call[id]
              /\ call_requests' = call_requests
              /\ call_callbacks' = call_callbacks
      ]_vars

\* a callback of c2 was applied while c1 had a pending retry with its payload
CallbackHandlingConfinedWitness ==
    /\ ev.op = "handle_call_callback"
    /\ ev.applied
    /\ ev.cid = "c2"
    /\ retry["c1"] # EmptyMap
    /\ \E id \in DOMAIN call : call[id].campaign_id = "c1"

====
